---- MODULE Spec2Model ----
(***************************************************************************)
(* A model of fetch_bathymetry.py: the bounding-box overlap predicate, the *)
(* resampling grid, the land mask and the linear batch job main().         *)
(* Coordinates are integers (hundredths of a degree in the pipeline).      *)
(***************************************************************************)
EXTENDS Integers, Sequences, FiniteSets, TLC

VARIABLES
    \* the overlap predicate applied to one input
    o_pc, o_geom, o_bbox, o_result,
    \* the masking stage applied to one raster, then to its own output
    m_pc, m_raster, m_shapes, m_once, m_twice,
    \* the resampling step applied to one bounding box and output size
    g_pc, g_bbox, g_size, g_src, g_native, g_dst, g_meta,
    \* main(): its position, the WCS response r, the process's exit status
    \* and stderr, the downloads attempted, the output paths written
    pc, response, exit_code, stderr, downloads, written,
    \* main(): the files GSHHG_SHP, NE_PP_SHP, TIFF_OUT, TIFF_SEA_OUT,
    \* LAND_OUT and PLACES_OUT
    gshhg_shp, ne_pp_shp, tiff_out, tiff_sea_out, land_out, places_out,
    \* main(): its local variables, and how far each read loop has got
    src_meta, native_arr, dst_arr, out_meta, land_i, land_shapes,
    land_geojson_features, sea_image, place_i, place_features

overlapVars == <<o_pc, o_geom, o_bbox, o_result>>
maskVars == <<m_pc, m_raster, m_shapes, m_once, m_twice>>
gridVars == <<g_pc, g_bbox, g_size, g_src, g_native, g_dst, g_meta>>
fileVars == <<gshhg_shp, ne_pp_shp, tiff_out, tiff_sea_out, land_out, places_out>>
rasterVars == <<src_meta, native_arr, dst_arr, out_meta, sea_image>>
landVars == <<land_i, land_shapes, land_geojson_features>>
placeVars == <<place_i, place_features>>
mainVars == <<pc, response, exit_code, stderr, downloads, written, fileVars,
              rasterVars, landVars, placeVars>>
vars == <<overlapVars, maskVars, gridVars, mainVars>>

\* Sample cell values: a depth, and a nodata value a source raster may
\* carry that is not NODATA.
SampleValues == [depth |-> 5, other_nodata |-> -32767]
Depth == SampleValues.depth
OtherNodata == SampleValues.other_nodata

\* Python's None.
None == "None"

\* The name r before requests.get has returned: bound to no response.
NoResponse == [unbound |-> TRUE]

\* NODATA = -9999.0
NODATA == -9999

----------------------------------------------------------------------------
(* Bounds of the model.                                                    *)

\* Largest coordinate of the overlap predicate's inputs.
MaxCoord == 2
\* Largest number of vertices of one geometry given to the overlap predicate.
MaxVerts == 2
\* Width and height, in cells, of the rasters given to the masking stage.
MaskW == 2
MaskH == 1
\* Largest output width and height given to the resampling step.
MaxDim == 2
\* WIDTH, HEIGHT = 3508, 4009 in the source: the output grid of main(),
\* scaled down to a grid whose cells can be enumerated.
WIDTH == 2
HEIGHT == 1
\* 1 / NATIVE_RES = 480 cells per degree in the source, scaled down
\* likewise.
NATIVE_PER_DEGREE == 1
\* Largest number of features in a shapefile.
MaxFeatures == 2

----------------------------------------------------------------------------
(* Sequence helpers: Python's list operations.                             *)

\* list.extend over a list of lists: the concatenation, in order.
RECURSIVE Flatten(_)
Flatten(ss) ==
    IF ss = <<>> THEN <<>> ELSE Head(ss) \o Flatten(Tail(ss))

\* max(xs) and min(xs) of a non-empty list, scanned left to right.
RECURSIVE MaxOf(_)
MaxOf(xs) ==
    IF Len(xs) = 1 THEN xs[1]
    ELSE LET m == MaxOf(Tail(xs)) IN IF xs[1] >= m THEN xs[1] ELSE m

RECURSIVE MinOf(_)
MinOf(xs) ==
    IF Len(xs) = 1 THEN xs[1]
    ELSE LET m == MinOf(Tail(xs)) IN IF xs[1] <= m THEN xs[1] ELSE m

\* All sequences over S of length at most n.
SeqsUpTo(S, n) == UNION {[1..k -> S] : k \in 0..n}

\* The sequences over S of length at most n that hold no element twice:
\* the records of a shapefile are different features.
DistinctSeqsUpTo(S, n) ==
    {s \in SeqsUpTo(S, n) : \A i, j \in 1..Len(s) : s[i] = s[j] => i = j}

----------------------------------------------------------------------------
(* _overlaps_bbox                                                          *)

\* The vertices the function collects: every ring of a Polygon, every ring
\* of every polygon of a MultiPolygon, nothing for any other type.
CollectCoords(geom) ==
    IF geom.type = "Polygon" THEN Flatten(geom.coordinates)
    ELSE IF geom.type = "MultiPolygon"
         THEN Flatten([i \in 1..Len(geom.coordinates) |->
                          Flatten(geom.coordinates[i])])
         ELSE <<>>

\* The comparison with the four tests strict: boxes that only touch miss.
BoxTestStrict(lons, lats, min_lon, min_lat, max_lon, max_lat) ==
    /\ MaxOf(lons) > min_lon /\ MinOf(lons) < max_lon
    /\ MaxOf(lats) > min_lat /\ MinOf(lats) < max_lat

\* The returned expression of _overlaps_bbox.
BoxTest(lons, lats, min_lon, min_lat, max_lon, max_lat) ==
    /\ MaxOf(lons) >= min_lon /\ MinOf(lons) <= max_lon
    /\ MaxOf(lats) >= min_lat /\ MinOf(lats) <= max_lat

_overlaps_bbox(geom, min_lon, min_lat, max_lon, max_lat) ==
    LET coords == CollectCoords(geom)
        lons == [i \in 1..Len(coords) |-> coords[i][1]]
        lats == [i \in 1..Len(coords) |-> coords[i][2]]
    IN  IF coords = <<>> THEN FALSE
        ELSE BoxTest(lons, lats, min_lon, min_lat, max_lon, max_lat)

----------------------------------------------------------------------------
(* Affine transforms (rasterio.transform.from_bounds, as main calls it).   *)
(* A ratio n/d is the pair <<n, d>> with d > 0; no rounding is modelled.   *)

\* from_bounds called with south and north exchanged.
from_bounds_flipped(west, south, east, north, width, height) ==
    [a |-> <<east - west, width>>, b |-> 0, c |-> west,
     d |-> 0, e |-> <<north - south, height>>, f |-> south]

\* from_bounds(west, south, east, north, width, height): translation to
\* (west, north) times scale((east - west) / width, (south - north) / height).
from_bounds(west, south, east, north, width, height) ==
    [a |-> <<east - west, width>>, b |-> 0, c |-> west,
     d |-> 0, e |-> <<south - north, height>>, f |-> north]

\* The centre of cell (row, col) under transform t, as the pair of ratios
\* <<x, y>>: x = c + a * (col + 1/2), y = f + e * (row + 1/2).
CellCentre(t, row, col) ==
    << <<2 * t.a[2] * t.c + t.a[1] * (2 * col + 1), 2 * t.a[2]>>,
       <<2 * t.e[2] * t.f + t.e[1] * (2 * row + 1), 2 * t.e[2]>> >>

----------------------------------------------------------------------------
(* Stage 1b: the resampling step of main (lines 206-227).                  *)

\* dst_transform = from_bounds(min_lon, min_lat, max_lon, max_lat, W, H)
DstTransform(bbox, width, height) ==
    from_bounds(bbox[1], bbox[2], bbox[3], bbox[4], width, height)

\* The arrays reproject(..., resampling=Resampling.lanczos) may leave in a
\* destination of the given shape. The kernel's weights are not modelled.
\* A normalised kernel over equal samples returns that sample, and the
\* sources of this model hold one depth: a destination cell holds a valid
\* value of the source or, when the source has nodata cells, dst_nodata
\* (which is src_nodata) where the kernel found no valid sample.
LanczosOutputs(meta, native, height, width) ==
    LET valid == {native[rc] : rc \in DOMAIN native} \ {meta.nodata[i] : i \in DOMAIN meta.nodata}
        fill == {native[rc] : rc \in DOMAIN native} \ valid
    IN  [(0..height - 1) \X (0..width - 1) -> valid \cup fill]

\* The step with dst_arr bound to native_arr instead of a new array: the
\* kernel's output lands in the source array as well.
ResampleInPlace(meta, native, bbox, width, height, filled) ==
    [native_arr |-> filled,
     dst_arr |-> filled,
     out_meta |-> [meta EXCEPT !.width = width, !.height = height,
                               !.transform = DstTransform(bbox, width, height)]]

\* The step as written: np.empty((HEIGHT, WIDTH)) is filled by reproject,
\* which only reads its source; out_meta is a copy of src_meta with width,
\* height and transform replaced.
ResampleStep(meta, native, bbox, width, height, filled) ==
    [native_arr |-> native,
     dst_arr |-> filled,
     out_meta |-> [meta EXCEPT !.width = width, !.height = height,
                               !.transform = DstTransform(bbox, width, height)]]

----------------------------------------------------------------------------
(* Stage 3: rio_mask(ds, land_shapes, invert=True, nodata=NODATA,          *)
(* filled=True), with crop and all_touched left at False.                  *)

\* Whether the edge from p to q crosses the ray going east from the point
\* (x, y), x and y ratios (the scan-line fill's crossing test).
EdgeCrosses(p, q, x, y) ==
    LET py == p[2] * y[2]
        qy == q[2] * y[2]
        dy == q[2] - p[2]
        lhs == (x[1] - p[1] * x[2]) * y[2] * dy
        rhs == (y[1] - py) * (q[1] - p[1]) * x[2]
    IN  /\ (py > y[1]) # (qy > y[1])
        /\ IF dy > 0 THEN lhs < rhs ELSE lhs > rhs

\* The number of edges, over the given rings, that the ray crosses.
Crossings(rings, x, y) ==
    Cardinality({ri \in UNION {{<<r, i>> : i \in 1..(Len(rings[r]) - 1)} :
                                r \in 1..Len(rings)} :
                    EdgeCrosses(rings[ri[1]][ri[2]], rings[ri[1]][ri[2] + 1], x, y)})

\* Whether the cell centre is burned by one shape: odd crossing count over
\* the rings of the shape (exterior and holes; all parts of a MultiPolygon).
Burns(shape, x, y) ==
    LET rings == IF shape.type = "Polygon" THEN shape.coordinates
                 ELSE IF shape.type = "MultiPolygon" THEN Flatten(shape.coordinates)
                 ELSE <<>>
    IN  Crossings(rings, x, y) % 2 = 1

\* geometry_mask(shapes, invert=True): TRUE for the cells some shape burns.
geometry_mask(shapes, transform, height, width) ==
    [rc \in (0..height - 1) \X (0..width - 1) |->
        LET ctr == CellCentre(transform, rc[1], rc[2])
        IN  \E k \in 1..Len(shapes) : Burns(shapes[k], ctr[1], ctr[2])]

\* dataset.read(masked=True): the cells equal to the dataset's own nodata.
\* A dataset's nodata is <<>> when it has none, and <<v>> otherwise.
ReadMask(ds) ==
    [rc \in DOMAIN ds.data |-> ds.nodata # <<>> /\ ds.data[rc] = ds.nodata[1]]

\* The call without nodata=NODATA: the fill value is the dataset's own
\* nodata, or 0 when it has none.
rio_mask_own_nodata(ds, shapes) ==
    LET shape_mask == geometry_mask(shapes, ds.transform, ds.height, ds.width)
        own == ReadMask(ds)
        fill == IF ds.nodata # <<>> THEN ds.nodata[1] ELSE 0
    IN  [image |-> [rc \in DOMAIN ds.data |->
                       IF own[rc] \/ shape_mask[rc] THEN fill ELSE ds.data[rc]],
         transform |-> ds.transform,
         shape |-> <<1, ds.height, ds.width>>]

\* The call with invert left out: the cells no shape burns are filled.
rio_mask_keep_inside(ds, shapes) ==
    LET shape_mask == geometry_mask(shapes, ds.transform, ds.height, ds.width)
        own == ReadMask(ds)
    IN  [image |-> [rc \in DOMAIN ds.data |->
                       IF own[rc] \/ ~shape_mask[rc] THEN NODATA ELSE ds.data[rc]],
         transform |-> ds.transform,
         shape |-> <<1, ds.height, ds.width>>]

\* rio_mask(ds, shapes, invert=True, nodata=NODATA, filled=True): the
\* masked read, or-ed with the shape mask, filled with NODATA; the whole
\* grid and the dataset's transform, since crop is False.
rio_mask(ds, shapes) ==
    LET shape_mask == geometry_mask(shapes, ds.transform, ds.height, ds.width)
        own == ReadMask(ds)
    IN  [image |-> [rc \in DOMAIN ds.data |->
                       IF own[rc] \/ shape_mask[rc] THEN NODATA ELSE ds.data[rc]],
         transform |-> ds.transform,
         shape |-> <<1, ds.height, ds.width>>]

\* Lines 254-264: open the raster, mask it, update a copy of its metadata
\* and return the dataset written to the output path.
MaskStage(ds, shapes) ==
    LET res == rio_mask(ds, shapes)
    IN  [width |-> res.shape[3], height |-> res.shape[2],
         transform |-> res.transform, nodata |-> <<NODATA>>,
         data |-> res.image]

----------------------------------------------------------------------------
(* Strings are sequences of characters.                                    *)

UpperCase ==
    <<"A", "B", "C", "D", "E", "F", "G", "H", "I", "J", "K", "L", "M",
      "N", "O", "P", "Q", "R", "S", "T", "U", "V", "W", "X", "Y", "Z">>

LowerCase ==
    <<"a", "b", "c", "d", "e", "f", "g", "h", "i", "j", "k", "l", "m",
      "n", "o", "p", "q", "r", "s", "t", "u", "v", "w", "x", "y", "z">>

DigitChars ==
    <<"0", "1", "2", "3", "4", "5", "6", "7", "8", "9">>

\* str.lower()
LowerChar(ch) ==
    IF \E i \in 1..Len(UpperCase) : UpperCase[i] = ch
    THEN LowerCase[CHOOSE i \in 1..Len(UpperCase) : UpperCase[i] = ch]
    ELSE ch

Lower(str) == [i \in 1..Len(str) |-> LowerChar(str[i])]

\* sub in str
Contains(sub, str) ==
    \E i \in 0..(Len(str) - Len(sub)) : SubSeq(str, i + 1, i + Len(sub)) = sub

\* str[:n]
Take(str, n) == SubSeq(str, 1, IF Len(str) < n THEN Len(str) ELSE n)

\* The first position of character ch in str, 0 when it is not there.
IndexOf(ch, str) ==
    IF \E i \in 1..Len(str) : str[i] = ch
    THEN CHOOSE i \in 1..Len(str) : str[i] = ch /\ \A j \in 1..(i - 1) : str[j] # ch
    ELSE 0

\* str.split(sep)
RECURSIVE Split(_, _)
Split(str, sep) ==
    LET i == IndexOf(sep, str)
    IN  IF i = 0 THEN <<str>>
        ELSE <<SubSeq(str, 1, i - 1)>> \o Split(SubSeq(str, i + 1, Len(str)), sep)

\* int() of a string of digits.
RECURSIVE ParseInt(_)
ParseInt(str) ==
    IF str = <<>> THEN 0
    ELSE ParseInt(SubSeq(str, 1, Len(str) - 1)) * 10
         + (CHOOSE d \in 0..9 : DigitChars[d + 1] = str[Len(str)])

\* float() of a decimal with at most two places, in hundredths.
ParseFloat(str) ==
    LET dot == IndexOf(".", str)
        frac == SubSeq(str, dot + 1, Len(str))
    IN  IF dot = 0 THEN 100 * ParseInt(str)
        ELSE 100 * ParseInt(SubSeq(str, 1, dot - 1))
             + (IF Len(frac) = 0 THEN 0
                ELSE IF Len(frac) = 1 THEN 10 * ParseInt(frac)
                ELSE ParseInt(frac))

\* round() of the ratio n / d, n >= 0 and d > 0: halves go to the even side.
Round(n, d) ==
    LET q == n \div d
        rem == n % d
    IN  IF 2 * rem < d THEN q
        ELSE IF 2 * rem > d THEN q + 1
        ELSE IF q % 2 = 0 THEN q ELSE q + 1

----------------------------------------------------------------------------
(* Configuration of main().                                                *)

\* BBOX = "11.95,54.90,13.35,56.50"
BBOX ==
    <<"1", "1", ".", "9", "5", ",", "5", "4", ".", "9", "0", ",", "1",
      "3", ".", "3", "5", ",", "5", "6", ".", "5", "0">>

\* (min_lon, min_lat, max_lon, max_lat), in hundredths of a degree.
_bbox_tuple ==
    LET parts == Split(BBOX, ",")
    IN  [i \in 1..Len(parts) |-> ParseFloat(parts[i])]

\* native_w = round((max_lon - min_lon) / NATIVE_RES), and native_h.
native_w == Round((_bbox_tuple[3] - _bbox_tuple[1]) * NATIVE_PER_DEGREE, 100)
native_h == Round((_bbox_tuple[4] - _bbox_tuple[2]) * NATIVE_PER_DEGREE, 100)

\* r.text[:500]
ExcerptLen == 500

----------------------------------------------------------------------------
(* Stage 1: the WCS request and the check of its response.                 *)

CT_tiff ==
    <<"i", "m", "a", "g", "e", "/", "t", "i", "f", "f">>

CT_xml ==
    <<"t", "e", "x", "t", "/", "x", "m", "l">>

CT_XML_mixed ==
    <<"T", "e", "x", "t", "/", "X", "M", "L", ";", " ", "c", "h", "a",
      "r", "s", "e", "t", "=", "U", "T", "F", "-", "8">>

CT_ogc ==
    <<"a", "p", "p", "l", "i", "c", "a", "t", "i", "o", "n", "/", "v",
      "n", "d", ".", "o", "g", "c", ".", "s", "e", "_", "x", "m", "l">>

\* Response headers: with or without a Content-Type.
HeaderSets ==
    {[k \in {} |-> <<>>]}
    \cup {[k \in {"Content-Type"} |-> ct] : ct \in {CT_tiff, CT_xml, CT_XML_mixed, CT_ogc}}

\* headers.get(key, default)
HeaderGet(headers, key, default) ==
    IF key \in DOMAIN headers THEN headers[key] ELSE default

\* A document of n characters whose i-th character tells i modulo 10.
Doc(n) == [i \in 1..n |-> DigitChars[(i % 10) + 1]]

\* The rasters the service may send for the requested size: depths with
\* no nodata declared, depths with a nodata declared, nodata everywhere.
TiffPayloads ==
    {[meta |-> [width |-> native_w, height |-> native_h,
                transform |-> from_bounds(_bbox_tuple[1], _bbox_tuple[2],
                                          _bbox_tuple[3], _bbox_tuple[4],
                                          native_w, native_h),
                nodata |-> nd],
      arr |-> [rc \in (0..native_h - 1) \X (0..native_w - 1) |-> v]] :
        <<nd, v>> \in {<< <<>>, Depth >>, << <<OtherNodata>>, Depth >>,
                       << <<NODATA>>, NODATA >>}}

\* Response bodies: an error document (short, of exactly ExcerptLen
\* characters, or longer), or a GeoTIFF.
Bodies ==
    {[text |-> Doc(n), is_tiff |-> FALSE, tiff |-> <<>>] :
        n \in {4, ExcerptLen, ExcerptLen + 1}}
    \cup {[text |-> <<"I", "I", "*">>, is_tiff |-> TRUE, tiff |-> <<t>>] :
            t \in TiffPayloads}

Responses ==
    {[status_code |-> sc, headers |-> h, body |-> b] :
        sc \in {200, 404, 503}, h \in HeaderSets, b \in Bodies}

\* r.status_code != 200 or "xml" in content_type.lower()
BadResponse(resp) ==
    LET content_type == HeaderGet(resp.headers, "Content-Type", <<>>)
    IN  resp.status_code # 200 \/ Contains(<<"x", "m", "l">>, Lower(content_type))

\* The argument of sys.exit: f"WCS error (HTTP {r.status_code}):\n{r.text[:500]}"
WcsErrorMessage(resp) ==
    [what |-> "WCS error (HTTP ", status |-> resp.status_code,
     then |-> "):\n", excerpt |-> Take(resp.body.text, ExcerptLen)]

----------------------------------------------------------------------------
(* Parts of the model that are not running.                                *)

MaskIdle ==
    /\ m_pc = "idle" /\ m_raster = None /\ m_shapes = None
    /\ m_once = None /\ m_twice = None

GridIdle ==
    /\ g_pc = "idle" /\ g_bbox = None /\ g_size = None /\ g_src = None
    /\ g_native = None /\ g_dst = None /\ g_meta = None

MainIdle ==
    /\ pc = "idle" /\ response = NoResponse /\ exit_code = None /\ stderr = None
    /\ downloads = {} /\ written = {}
    /\ gshhg_shp = None /\ ne_pp_shp = None /\ tiff_out = None
    /\ tiff_sea_out = None /\ land_out = None /\ places_out = None
    /\ src_meta = None /\ native_arr = None /\ dst_arr = None
    /\ out_meta = None /\ sea_image = None /\ land_i = 0 /\ land_shapes = <<>>
    /\ land_geojson_features = <<>> /\ place_i = 0 /\ place_features = <<>>

OverlapIdle ==
    /\ o_pc = "idle" /\ o_geom = None /\ o_bbox = None /\ o_result = None

----------------------------------------------------------------------------
(* The overlap predicate applied to bounded inputs.                        *)

Pts == (0..MaxCoord) \X (0..MaxCoord)

\* Bounding boxes with min < max on both axes.
BBoxes ==
    {b \in (0..MaxCoord) \X (0..MaxCoord) \X (0..MaxCoord) \X (0..MaxCoord) :
        b[1] < b[3] /\ b[2] < b[4]}

\* The geometries over a vertex list v: one ring, two rings (exterior and
\* hole), one polygon of a MultiPolygon, two polygons of a MultiPolygon.
GeomsOver(v) ==
    LET k == Len(v) \div 2
        a == SubSeq(v, 1, k)
        b == SubSeq(v, k + 1, Len(v))
    IN  { [type |-> "Polygon", coordinates |-> <<v>>],
          [type |-> "Polygon", coordinates |-> <<b, a>>],
          [type |-> "MultiPolygon", coordinates |-> << <<b, a>> >>],
          [type |-> "MultiPolygon", coordinates |-> << <<b>>, <<a>> >>] }

\* The geometries of at most n vertices, and the points.
OverlapGeoms(n) ==
    UNION {GeomsOver(v) : v \in SeqsUpTo(Pts, n)}
    \cup {[type |-> "Point", coordinates |-> p] : p \in Pts}

OverlapInit ==
    /\ o_pc = "input"
    /\ o_geom \in OverlapGeoms(MaxVerts)
    /\ o_bbox \in BBoxes
    /\ o_result = None
    /\ MaskIdle /\ GridIdle /\ MainIdle

CallOverlaps ==
    /\ o_pc = "input"
    /\ o_result' = _overlaps_bbox(o_geom, o_bbox[1], o_bbox[2], o_bbox[3], o_bbox[4])
    /\ o_pc' = "done"
    /\ UNCHANGED <<o_geom, o_bbox>>
    /\ UNCHANGED <<maskVars, gridVars, mainVars>>

OverlapNext == CallOverlaps

SpecOverlap == OverlapInit /\ [][OverlapNext]_vars

----------------------------------------------------------------------------
(* C1: for a Polygon or MultiPolygon with at least one vertex, the result  *)
(* is true exactly when some vertex is at or east of min_lon, some vertex  *)
(* at or west of max_lon, some at or north of min_lat and some at or south *)
(* of max_lat, that is, when the box spanned by all ring vertices meets    *)
(* the target box, touching included.                                      *)

\* Every vertex of every ring of the geometry, as a set, read off the
\* GeoJSON nesting directly.
VertexSet(geom) ==
    IF geom.type = "Polygon"
    THEN {geom.coordinates[r][i] :
            <<r, i>> \in {ri \in (1..Len(geom.coordinates)) \X (1..MaxVerts + 1) :
                            ri[2] <= Len(geom.coordinates[ri[1]])}}
    ELSE UNION { {geom.coordinates[p][r][i] :
                    <<r, i>> \in {ri \in (1..Len(geom.coordinates[p])) \X (1..MaxVerts + 1) :
                                    ri[2] <= Len(geom.coordinates[p][ri[1]])}} :
                 p \in 1..Len(geom.coordinates) }

IsPolygonal(geom) == geom.type \in {"Polygon", "MultiPolygon"}

\* C1: _overlaps_bbox of a Polygon or MultiPolygon with a vertex is true
\* exactly when the box spanned by its vertices meets the target box, with
\* all four comparisons inclusive.
C1_OverlapIffBoxesMeet ==
    (o_pc = "done" /\ IsPolygonal(o_geom) /\ VertexSet(o_geom) # {}) =>
        LET V == VertexSet(o_geom) IN
        o_result = ( /\ \E v \in V : v[1] >= o_bbox[1]
                     /\ \E v \in V : v[1] <= o_bbox[3]
                     /\ \E v \in V : v[2] >= o_bbox[2]
                     /\ \E v \in V : v[2] <= o_bbox[4] )

\* A polygon whose eastmost vertex lies exactly on the box's west edge has
\* been tested and found overlapping (boxes that only touch).
C1_Witness ==
    /\ o_pc = "done"
    /\ o_geom.type = "Polygon"
    /\ VertexSet(o_geom) # {}
    /\ \A v \in VertexSet(o_geom) : v[1] <= o_bbox[1]
    /\ \E v \in VertexSet(o_geom) : v[1] = o_bbox[1]
    /\ o_result = TRUE

----------------------------------------------------------------------------
(* C2: for a Point geometry the result is true exactly when the point lies *)
(* in [min_lon, max_lon] x [min_lat, max_lat], the inline test of the      *)
(* populated-places loop.                                                  *)

\* The inline filter of the populated-places loop.
InRange(lon, lat, min_lon, min_lat, max_lon, max_lat) ==
    /\ min_lon <= lon /\ lon <= max_lon
    /\ min_lat <= lat /\ lat <= max_lat

\* C2: _overlaps_bbox of a Point is true exactly when the point lies in
\* the target box, as the inline filter of the places loop decides it.
C2_PointOverlapIffInRange ==
    (o_pc = "done" /\ o_geom.type = "Point") =>
        o_result = InRange(o_geom.coordinates[1], o_geom.coordinates[2],
                           o_bbox[1], o_bbox[2], o_bbox[3], o_bbox[4])

----------------------------------------------------------------------------
(* The masking stage applied to bounded inputs, then to its own output.    *)

\* The closed ring of the rectangle with corners (x0, y0) and (x1, y1).
RectRing(x0, y0, x1, y1) ==
    << <<x0, y0>>, <<x1, y0>>, <<x1, y1>>, <<x0, y1>>, <<x0, y0>> >>

RectRingOf(r) == RectRing(r[1], r[2], r[3], r[4])

\* The rasters span (0, 0)-(2 MaskW, 2 MaskH) with cells of size 2, so
\* cell centres have odd coordinates; shapes have even ones, and no centre
\* lies on an edge.
MaskExtent == <<0, 0, 2 * MaskW, 2 * MaskH>>

EvenX == {2 * i : i \in 0..MaskW}
EvenY == {2 * j : j \in 0..MaskH}

MaskRects ==
    {r \in EvenX \X EvenY \X EvenX \X EvenY : r[1] < r[3] /\ r[2] < r[4]}

LeftColumn == <<0, 0, 2, 2 * MaskH>>

\* Polygon sets: one rectangle; the full extent with a rectangular hole; a
\* MultiPolygon of the left column and a rectangle east of it; two
\* polygons that may overlap.
MaskShapeLists ==
    {<< [type |-> "Polygon", coordinates |-> <<RectRingOf(r)>>] >> : r \in MaskRects}
    \cup {<< [type |-> "Polygon",
              coordinates |-> <<RectRingOf(MaskExtent), RectRingOf(r)>>] >> :
            r \in MaskRects \ {MaskExtent}}
    \cup {<< [type |-> "MultiPolygon",
              coordinates |-> << <<RectRingOf(LeftColumn)>>, <<RectRingOf(r)>> >>] >> :
            r \in {q \in MaskRects : q[1] >= 2}}
    \cup {<< [type |-> "Polygon", coordinates |-> <<RectRingOf(r)>>],
             [type |-> "Polygon", coordinates |-> <<RectRingOf(LeftColumn)>>] >> :
            r \in MaskRects}

MaskCells == (0..MaskH - 1) \X (0..MaskW - 1)

\* The rasters with nodata value nd: every cell a depth or the value that
\* marks nodata.
RastersWithNodata(nd) ==
    {[width |-> MaskW, height |-> MaskH,
      transform |-> from_bounds(MaskExtent[1], MaskExtent[2], MaskExtent[3],
                                MaskExtent[4], MaskW, MaskH),
      nodata |-> nd, data |-> dat] :
        dat \in [MaskCells -> {Depth, IF nd = <<>> THEN NODATA ELSE nd[1]}]}

\* Source rasters: no nodata, nodata NODATA or another nodata value.
MaskRasters ==
    UNION {RastersWithNodata(nd) : nd \in {<<>>, <<NODATA>>, <<OtherNodata>>}}

MaskInit ==
    /\ m_pc = "input"
    /\ m_raster \in MaskRasters
    /\ m_shapes \in MaskShapeLists
    /\ m_once = None
    /\ m_twice = None
    /\ OverlapIdle /\ GridIdle /\ MainIdle

MaskOnce ==
    /\ m_pc = "input"
    /\ m_once' = MaskStage(m_raster, m_shapes)
    /\ m_pc' = "masked"
    /\ UNCHANGED <<m_raster, m_shapes, m_twice>>
    /\ UNCHANGED <<overlapVars, gridVars, mainVars>>

MaskAgain ==
    /\ m_pc = "masked"
    /\ m_twice' = MaskStage(m_once, m_shapes)
    /\ m_pc' = "remasked"
    /\ UNCHANGED <<m_raster, m_shapes, m_once>>
    /\ UNCHANGED <<overlapVars, gridVars, mainVars>>

MaskNext == MaskOnce \/ MaskAgain

SpecMask == MaskInit /\ [][MaskNext]_vars

----------------------------------------------------------------------------
(* C5: masking the masked raster again with the same polygons gives the    *)
(* same raster: width, height, transform, nodata and every cell.           *)

\* C5: the second masking pass returns the raster the first pass returned.
C5_MaskIdempotent ==
    m_pc = "remasked" => m_twice = m_once

\* A second pass over a raster whose first pass filled some cell and kept
\* some other cell.
C5_Witness ==
    /\ m_pc = "remasked"
    /\ \E rc \in MaskCells : m_once.data[rc] = NODATA /\ m_raster.data[rc] = Depth
    /\ \E rc \in MaskCells : m_once.data[rc] = Depth

----------------------------------------------------------------------------
(* C4: after one pass, every cell whose centre lies inside some polygon    *)
(* holds NODATA; every cell whose centre lies outside all polygons holds   *)
(* its source value, and a cell that is nodata in the source is nodata in  *)
(* the output, that is, holds NODATA, the output's nodata value.           *)

\* The centre of cell (row, col) of the rasters above: row 0 is the
\* northmost row, cells are 2 wide and 2 high.
CentreX(rc) == 2 * rc[2] + 1
CentreY(rc) == 2 * MaskH - (2 * rc[1] + 1)

\* The box spanned by a ring's vertices; the shapes above are rectangles,
\* so a point is inside a ring exactly when it is strictly inside this box.
RingBox(ring) ==
    <<MinOf([i \in 1..Len(ring) |-> ring[i][1]]),
      MinOf([i \in 1..Len(ring) |-> ring[i][2]]),
      MaxOf([i \in 1..Len(ring) |-> ring[i][1]]),
      MaxOf([i \in 1..Len(ring) |-> ring[i][2]])>>

InBox(b, x, y) == b[1] < x /\ x < b[3] /\ b[2] < y /\ y < b[4]

\* Inside a polygon: inside its exterior ring and inside none of its holes.
InsidePolygon(rings, x, y) ==
    /\ InBox(RingBox(rings[1]), x, y)
    /\ \A h \in 2..Len(rings) : ~InBox(RingBox(rings[h]), x, y)

InsideShape(shape, x, y) ==
    IF shape.type = "Polygon" THEN InsidePolygon(shape.coordinates, x, y)
    ELSE \E p \in 1..Len(shape.coordinates) :
            InsidePolygon(shape.coordinates[p], x, y)

InsideAny(shapes, rc) ==
    \E k \in 1..Len(shapes) : InsideShape(shapes[k], CentreX(rc), CentreY(rc))

IsSourceNodata(ds, rc) == ds.nodata # <<>> /\ ds.data[rc] = ds.nodata[1]

\* C4: masking over a non-empty polygon list keeps the grid's shape, fills
\* with NODATA the cells whose centre is inside a polygon and the cells
\* that are nodata in the source, and leaves every other cell as it was.
C4_MaskKeepsSea ==
    m_pc = "masked" =>
        /\ m_once.width = m_raster.width /\ m_once.height = m_raster.height
        /\ \A rc \in MaskCells :
              m_once.data[rc] =
                 IF InsideAny(m_shapes, rc) \/ IsSourceNodata(m_raster, rc)
                 THEN NODATA ELSE m_raster.data[rc]

\* One square polygon over the left half of a raster of depths: the left
\* half is NODATA and the right half unchanged.
C4_Witness ==
    /\ m_pc = "masked"
    /\ m_shapes = << [type |-> "Polygon", coordinates |-> <<RectRingOf(LeftColumn)>>] >>
    /\ \A rc \in MaskCells : m_raster.data[rc] = Depth
    /\ \A rc \in MaskCells :
          m_once.data[rc] = IF CentreX(rc) < LeftColumn[3] THEN NODATA ELSE Depth
    /\ \E rc \in MaskCells : m_once.data[rc] = Depth

----------------------------------------------------------------------------
(* The resampling step applied to bounded boxes and output sizes.          *)

\* A source grid of two cells, north and south, covering the box, with or
\* without nodata.
GridSources(bbox) ==
    {[width |-> 1, height |-> 2,
      transform |-> from_bounds(bbox[1], bbox[2], bbox[3], bbox[4], 1, 2),
      nodata |-> nd] : nd \in {<<>>, <<NODATA>>}}

GridInit ==
    /\ g_pc = "input"
    /\ g_bbox \in BBoxes
    /\ g_size \in (1..MaxDim) \X (1..MaxDim)
    /\ g_src \in GridSources(g_bbox)
    /\ g_native \in [{<<0, 0>>, <<1, 0>>} ->
                       {Depth} \cup {g_src.nodata[i] : i \in DOMAIN g_src.nodata}]
    /\ g_dst = None
    /\ g_meta = None
    /\ OverlapIdle /\ MaskIdle /\ MainIdle

ApplyResample ==
    /\ g_pc = "input"
    /\ \E filled \in LanczosOutputs(g_src, g_native, g_size[2], g_size[1]) :
          LET res == ResampleStep(g_src, g_native, g_bbox, g_size[1], g_size[2], filled)
          IN  /\ g_native' = res.native_arr
              /\ g_dst' = res.dst_arr
              /\ g_meta' = res.out_meta
    /\ g_pc' = "resampled"
    /\ UNCHANGED <<g_bbox, g_size, g_src>>
    /\ UNCHANGED <<overlapVars, maskVars, mainVars>>

GridNext == ApplyResample

SpecGrid == GridInit /\ [][GridNext]_vars

----------------------------------------------------------------------------
(* C6: the destination grid has exactly W x H cells, and the transform in  *)
(* the written metadata has its origin at (min_lon, max_lat), pixel width  *)
(* (max_lon - min_lon) / W, pixel height (max_lat - min_lat) / H and no    *)
(* rotation, so that it carries the grid's four corners onto the box's     *)
(* four corners to within 1e-6.                                            *)

\* The transform applied to grid position (col, row): a pair of ratios.
Apply(t, col, row) ==
    << <<t.a[1] * col + (t.b * row + t.c) * t.a[2], t.a[2]>>,
       <<t.e[1] * row + (t.d * col + t.f) * t.e[2], t.e[2]>> >>

Abs(n) == IF n < 0 THEN -n ELSE n

\* |q - v| <= 1e-6, for a ratio q and an integer v.
Near(q, v) == 1000000 * Abs(q[1] - v * q[2]) <= q[2]

NearPoint(xy, lon, lat) == Near(xy[1], lon) /\ Near(xy[2], lat)

\* C6: the resampled grid is W x H, its metadata carries W, H and the
\* transform with origin (min_lon, max_lat), pixel size (max_lon - min_lon)
\* / W by (max_lat - min_lat) / H and no rotation, and the transform maps
\* the grid's corners to the box's corners within 1e-6.
C6_GridCoversBox ==
    g_pc = "resampled" =>
        LET W == g_size[1]
            H == g_size[2]
            t == g_meta.transform
        IN  /\ DOMAIN g_dst = (0..H - 1) \X (0..W - 1)
            /\ g_meta.width = W /\ g_meta.height = H
            /\ t.b = 0 /\ t.d = 0
            /\ t.c = g_bbox[1] /\ t.f = g_bbox[4]
            /\ t.a[1] * W = (g_bbox[3] - g_bbox[1]) * t.a[2]
            /\ -t.e[1] * H = (g_bbox[4] - g_bbox[2]) * t.e[2]
            /\ NearPoint(Apply(t, 0, 0), g_bbox[1], g_bbox[4])
            /\ NearPoint(Apply(t, W, 0), g_bbox[3], g_bbox[4])
            /\ NearPoint(Apply(t, 0, H), g_bbox[1], g_bbox[2])
            /\ NearPoint(Apply(t, W, H), g_bbox[3], g_bbox[2])

\* A box that is not square resampled to a grid that is not square and
\* is wider than the source grid.
C6_Witness ==
    /\ g_pc = "resampled"
    /\ g_size[1] # g_size[2]
    /\ g_size[1] > g_src.width
    /\ g_bbox[3] - g_bbox[1] # g_bbox[4] - g_bbox[2]
    /\ g_meta.width = g_size[1]

----------------------------------------------------------------------------
(* Stage 2 and stage 4: the two read loops of main.                        *)

\* {"type": "Feature", "geometry": geom, "properties": {}}
LandFeature(geom) ==
    [type |-> "Feature", geometry |-> geom, properties |-> [k \in {} |-> None]]

\* The body of the land loop with the feature appended whatever the test
\* says: the two lists are no longer filtered alike.
LandLoopBodyUnfiltered(shapes, features, geom) ==
    IF _overlaps_bbox(geom, _bbox_tuple[1], _bbox_tuple[2], _bbox_tuple[3], _bbox_tuple[4])
    THEN [land_shapes |-> Append(shapes, geom),
          land_geojson_features |-> Append(features, LandFeature(geom))]
    ELSE [land_shapes |-> shapes,
          land_geojson_features |-> Append(features, LandFeature(geom))]

\* The body of the land loop with insert(0, ...) for append.
LandLoopBodyPrepend(shapes, features, geom) ==
    IF _overlaps_bbox(geom, _bbox_tuple[1], _bbox_tuple[2], _bbox_tuple[3], _bbox_tuple[4])
    THEN [land_shapes |-> <<geom>> \o shapes,
          land_geojson_features |-> <<LandFeature(geom)>> \o features]
    ELSE [land_shapes |-> shapes, land_geojson_features |-> features]

\* The body of the land loop (lines 239-244) for one feature's geometry.
LandLoopBody(shapes, features, geom) ==
    IF _overlaps_bbox(geom, _bbox_tuple[1], _bbox_tuple[2], _bbox_tuple[3], _bbox_tuple[4])
    THEN [land_shapes |-> Append(shapes, geom),
          land_geojson_features |-> Append(features, LandFeature(geom))]
    ELSE [land_shapes |-> shapes, land_geojson_features |-> features]

\* p.get(key)
PropGet(p, key) == IF key \in DOMAIN p THEN p[key] ELSE None

\* The properties with only the attributes the source feature has.
PlacePropertiesPresentOnly(p) ==
    LET names == [name |-> "NAME", pop_max |-> "POP_MAX", pop_min |-> "POP_MIN",
                  adm0_a3 |-> "ADM0_A3", featurecla |-> "FEATURECLA",
                  scalerank |-> "SCALERANK"]
    IN  [k \in {n \in DOMAIN names : names[n] \in DOMAIN p} |-> p[names[k]]]

\* The "properties" mapping of an emitted place (lines 283-290).
PlaceProperties(p) ==
    [name       |-> PropGet(p, "NAME"),
     pop_max    |-> PropGet(p, "POP_MAX"),
     pop_min    |-> PropGet(p, "POP_MIN"),
     adm0_a3    |-> PropGet(p, "ADM0_A3"),
     featurecla |-> PropGet(p, "FEATURECLA"),
     scalerank  |-> PropGet(p, "SCALERANK")]

\* The body of the places loop (lines 276-291) for one feature.
PlaceLoopBody(features, feat) ==
    LET geom == feat.geometry
        lon == geom.coordinates[1]
        lat == geom.coordinates[2]
    IN  IF /\ _bbox_tuple[1] <= lon /\ lon <= _bbox_tuple[3]
           /\ _bbox_tuple[2] <= lat /\ lat <= _bbox_tuple[4]
        THEN Append(features, [type |-> "Feature", geometry |-> geom,
                               properties |-> PlaceProperties(feat.properties)])
        ELSE features

\* Land features a shapefile may hold: a polygon over the western part of
\* the box, a MultiPolygon touching the box's north-east corner only, a
\* polygon east of the box.
LandFeatures ==
    {[geometry |-> g, properties |-> [id |-> "0"]] :
        g \in {[type |-> "Polygon",
                coordinates |-> <<RectRing(1190, 5480, 1260, 5660)>>],
               [type |-> "MultiPolygon",
                coordinates |-> << <<RectRing(1335, 5650, 1340, 5655)>> >>],
               [type |-> "Polygon",
                coordinates |-> <<RectRing(1400, 5700, 1410, 5710)>>]}}

\* Populated places a shapefile may hold: one inside the box with every
\* attribute, one on the box's south-west corner with other attributes,
\* one just east of the box.
FullProperties ==
    [NAME |-> "Malmo", POP_MAX |-> "301706", POP_MIN |-> "261548",
     ADM0_A3 |-> "SWE", FEATURECLA |-> "Populated place", SCALERANK |-> "3"]

PlaceFeatures ==
    {[geometry |-> [type |-> "Point", coordinates |-> <<1300, 5560>>],
      properties |-> FullProperties],
     [geometry |-> [type |-> "Point", coordinates |-> <<1195, 5490>>],
      properties |-> [NAME |-> "Corner", LATITUDE |-> "54.9"]],
     [geometry |-> [type |-> "Point", coordinates |-> <<1336, 5560>>],
      properties |-> FullProperties]}

----------------------------------------------------------------------------
(* main(): a linear batch job.                                             *)

MainInit ==
    /\ pc = "fetch"
    /\ response = NoResponse /\ exit_code = None /\ stderr = None
    /\ downloads = {} /\ written = {}
    /\ gshhg_shp = None /\ ne_pp_shp = None /\ tiff_out = None
    /\ tiff_sea_out = None /\ land_out = None /\ places_out = None
    /\ src_meta = None /\ native_arr = None /\ dst_arr = None
    /\ out_meta = None /\ sea_image = None /\ land_i = 0 /\ land_shapes = <<>>
    /\ land_geojson_features = <<>> /\ place_i = 0 /\ place_features = <<>>
    /\ OverlapIdle /\ MaskIdle /\ GridIdle

\* An uncaught exception: a traceback and exit status 1.
Crash ==
    /\ pc' = "crashed"
    /\ exit_code' = 1

\* Lines 194-203: the request, which raises when the service cannot be
\* reached or does not answer in time. With stream=True the body is not
\* read by requests.get: on a bad response r.text reads it inside the
\* argument of sys.exit, else iter_content streams it into raw_bytes, and
\* either read raises when the connection breaks.
FetchCoverage ==
    /\ pc = "fetch"
    /\ \/ /\ Crash
          /\ UNCHANGED <<response, stderr>>
       \/ \E resp \in Responses :
             /\ response' = resp
             /\ IF BadResponse(resp)
                THEN \/ /\ pc' = "exited"
                        /\ exit_code' = 1
                        /\ stderr' = WcsErrorMessage(resp)
                     \/ /\ Crash
                        /\ UNCHANGED stderr
                ELSE /\ \/ pc' = "resample" /\ UNCHANGED exit_code
                        \/ Crash
                     /\ UNCHANGED stderr
    /\ UNCHANGED <<downloads, written, fileVars, rasterVars, landVars, placeVars>>
    /\ UNCHANGED <<overlapVars, maskVars, gridVars>>

\* Lines 206-227: open raw_bytes as a raster (an exception when it is not
\* one), read band 1 and resample it onto the WIDTH x HEIGHT grid.
Resample ==
    /\ pc = "resample"
    /\ IF ~response.body.is_tiff
       THEN /\ Crash
            /\ UNCHANGED <<rasterVars>>
       ELSE LET tiff == response.body.tiff[1] IN
            \E filled \in LanczosOutputs(tiff.meta, tiff.arr, HEIGHT, WIDTH) :
               LET res == ResampleStep(tiff.meta, tiff.arr, _bbox_tuple,
                                       WIDTH, HEIGHT, filled)
               IN  /\ src_meta' = tiff.meta
                   /\ native_arr' = res.native_arr
                   /\ dst_arr' = res.dst_arr
                   /\ out_meta' = res.out_meta
                   /\ pc' = "write_tiff"
                   /\ UNCHANGED <<exit_code, sea_image>>
    /\ UNCHANGED <<response, stderr, downloads, written, fileVars, landVars, placeVars>>
    /\ UNCHANGED <<overlapVars, maskVars, gridVars>>

\* Lines 228-230: write the resampled raster to TIFF_OUT.
WriteTiff ==
    /\ pc = "write_tiff"
    /\ tiff_out' = [width |-> out_meta.width, height |-> out_meta.height,
                    transform |-> out_meta.transform, nodata |-> out_meta.nodata,
                    data |-> dst_arr]
    /\ written' = written \cup {"TIFF_OUT"}
    /\ pc' = "ensure_gshhg"
    /\ UNCHANGED <<response, exit_code, stderr, downloads, gshhg_shp, ne_pp_shp,
                   tiff_sea_out, land_out, places_out, rasterVars, landVars, placeVars>>
    /\ UNCHANGED <<overlapVars, maskVars, gridVars>>

\* _ensure_gshhg(): the cached shapefile is used, or the archive is
\* downloaded (raise_for_status may raise) and the shapefile extracted.
EnsureGshhg ==
    /\ pc = "ensure_gshhg"
    /\ \/ \E cached \in DistinctSeqsUpTo(LandFeatures, MaxFeatures) :
             /\ gshhg_shp' = cached
             /\ pc' = "read_land"
             /\ UNCHANGED <<downloads, exit_code>>
       \/ \E extracted \in DistinctSeqsUpTo(LandFeatures, MaxFeatures) :
             /\ downloads' = downloads \cup {"GSHHG_ZIP_URL"}
             /\ gshhg_shp' = extracted
             /\ pc' = "read_land"
             /\ UNCHANGED exit_code
       \/ /\ downloads' = downloads \cup {"GSHHG_ZIP_URL"}
          /\ Crash
          /\ UNCHANGED gshhg_shp
    /\ UNCHANGED <<response, stderr, written, ne_pp_shp, tiff_out, tiff_sea_out,
                   land_out, places_out, rasterVars, landVars, placeVars>>
    /\ UNCHANGED <<overlapVars, maskVars, gridVars>>

\* Lines 238-244: one iteration of the loop over the shapefile.
ReadLandFeature ==
    /\ pc = "read_land"
    /\ land_i < Len(gshhg_shp)
    /\ LET feat == gshhg_shp[land_i + 1]
           res == LandLoopBody(land_shapes, land_geojson_features, feat.geometry)
       IN  /\ land_shapes' = res.land_shapes
           /\ land_geojson_features' = res.land_geojson_features
    /\ land_i' = land_i + 1
    /\ UNCHANGED <<pc, response, exit_code, stderr, downloads, written, fileVars,
                   rasterVars, placeVars>>
    /\ UNCHANGED <<overlapVars, maskVars, gridVars>>

\* Lines 246-249: the loop is over; the feature collection goes to LAND_OUT.
WriteLand ==
    /\ pc = "read_land"
    /\ land_i = Len(gshhg_shp)
    /\ land_out' = [type |-> "FeatureCollection", features |-> land_geojson_features]
    /\ written' = written \cup {"LAND_OUT"}
    /\ pc' = "mask"
    /\ UNCHANGED <<response, exit_code, stderr, downloads, gshhg_shp, ne_pp_shp,
                   tiff_out, tiff_sea_out, places_out, rasterVars, landVars, placeVars>>
    /\ UNCHANGED <<overlapVars, maskVars, gridVars>>

\* Lines 254-265: mask TIFF_OUT with land_shapes and write TIFF_SEA_OUT.
\* With no shape at all rio_mask has no window to compute: depending on
\* the library it raises or masks nothing.
MaskLand ==
    /\ pc = "mask"
    /\ \/ /\ land_shapes = <<>>
          /\ Crash
          /\ UNCHANGED <<sea_image, tiff_sea_out, written>>
       \/ /\ LET res == rio_mask(tiff_out, land_shapes)
                 out == MaskStage(tiff_out, land_shapes)
             IN  /\ sea_image' = res.image
                 /\ tiff_sea_out' = out
          /\ written' = written \cup {"TIFF_SEA_OUT"}
          /\ pc' = "ensure_ne"
          /\ UNCHANGED exit_code
    /\ UNCHANGED <<response, stderr, downloads, gshhg_shp, ne_pp_shp, tiff_out,
                   land_out, places_out, src_meta, native_arr, dst_arr, out_meta,
                   landVars, placeVars>>
    /\ UNCHANGED <<overlapVars, maskVars, gridVars>>

\* _ensure_ne(...): as _ensure_gshhg, for the populated places.
EnsureNe ==
    /\ pc = "ensure_ne"
    /\ \/ \E cached \in DistinctSeqsUpTo(PlaceFeatures, MaxFeatures) :
             /\ ne_pp_shp' = cached
             /\ pc' = "read_places"
             /\ UNCHANGED <<downloads, exit_code>>
       \/ \E extracted \in DistinctSeqsUpTo(PlaceFeatures, MaxFeatures) :
             /\ downloads' = downloads \cup {"NE_POPULATED_PLACES_URL"}
             /\ ne_pp_shp' = extracted
             /\ pc' = "read_places"
             /\ UNCHANGED exit_code
       \/ /\ downloads' = downloads \cup {"NE_POPULATED_PLACES_URL"}
          /\ Crash
          /\ UNCHANGED ne_pp_shp
    /\ UNCHANGED <<response, stderr, written, gshhg_shp, tiff_out, tiff_sea_out,
                   land_out, places_out, rasterVars, landVars, placeVars>>
    /\ UNCHANGED <<overlapVars, maskVars, gridVars>>

\* Lines 275-291: one iteration of the loop over the populated places.
ReadPlace ==
    /\ pc = "read_places"
    /\ place_i < Len(ne_pp_shp)
    /\ place_features' = PlaceLoopBody(place_features, ne_pp_shp[place_i + 1])
    /\ place_i' = place_i + 1
    /\ UNCHANGED <<pc, response, exit_code, stderr, downloads, written, fileVars,
                   rasterVars, landVars>>
    /\ UNCHANGED <<overlapVars, maskVars, gridVars>>

\* Lines 292-294: the loop is over; the feature collection goes to PLACES_OUT.
WritePlaces ==
    /\ pc = "read_places"
    /\ place_i = Len(ne_pp_shp)
    /\ places_out' = [type |-> "FeatureCollection", features |-> place_features]
    /\ written' = written \cup {"PLACES_OUT"}
    /\ pc' = "summary"
    /\ UNCHANGED <<response, exit_code, stderr, downloads, gshhg_shp, ne_pp_shp,
                   tiff_out, tiff_sea_out, land_out, rasterVars, landVars, placeVars>>
    /\ UNCHANGED <<overlapVars, maskVars, gridVars>>

\* Lines 327-330: the depth statistics of the cells of TIFF_SEA_OUT that
\* are not NODATA; min() of no cell at all raises.
Summary ==
    /\ pc = "summary"
    /\ IF \A rc \in DOMAIN tiff_sea_out.data : tiff_sea_out.data[rc] = NODATA
       THEN Crash
       ELSE /\ pc' = "done"
            /\ exit_code' = 0
    /\ UNCHANGED <<response, stderr, downloads, written, fileVars, rasterVars,
                   landVars, placeVars>>
    /\ UNCHANGED <<overlapVars, maskVars, gridVars>>

Next ==
    \/ FetchCoverage
    \/ Resample
    \/ WriteTiff
    \/ EnsureGshhg
    \/ ReadLandFeature
    \/ WriteLand
    \/ MaskLand
    \/ EnsureNe
    \/ ReadPlace
    \/ WritePlaces
    \/ Summary

Spec == MainInit /\ [][Next]_vars

----------------------------------------------------------------------------
(* C3: at every step of the land loop and after it, land_shapes and        *)
(* land_geojson_features have the same length, the i-th feature wraps the  *)
(* i-th shape, and a geometry read so far is in them exactly when          *)
(* _overlaps_bbox holds for it; the collection written to LAND_OUT and     *)
(* the polygons that masked TIFF_SEA_OUT are those same geometries.        *)

OverlapsBox(geom) ==
    _overlaps_bbox(geom, _bbox_tuple[1], _bbox_tuple[2], _bbox_tuple[3], _bbox_tuple[4])

Geometries(features) == [i \in 1..Len(features) |-> features[i].geometry]

\* C3: land_shapes and land_geojson_features hold the same geometries in
\* the same order at every step, those _overlaps_bbox accepts, and the
\* written collection and the masking polygons are those geometries.
C3_LandListsAgree ==
    /\ Len(land_shapes) = Len(land_geojson_features)
    /\ \A i \in 1..Len(land_shapes) :
          land_geojson_features[i] =
             [type |-> "Feature", geometry |-> land_shapes[i],
              properties |-> [k \in {} |-> None]]
    /\ \A j \in 1..land_i :
          LET geom == gshhg_shp[j].geometry
          IN  /\ OverlapsBox(geom) <=> \E i \in 1..Len(land_shapes) : land_shapes[i] = geom
              /\ OverlapsBox(geom) <=>
                    \E i \in 1..Len(land_geojson_features) :
                        land_geojson_features[i].geometry = geom
    /\ "LAND_OUT" \in written => Geometries(land_out.features) = land_shapes
    /\ "TIFF_SEA_OUT" \in written =>
          tiff_sea_out = MaskStage(tiff_out, Geometries(land_out.features))

\* The loop is over, having kept one geometry and dropped another.
C3_Witness ==
    /\ pc = "mask"
    /\ land_i = 2
    /\ Len(land_shapes) = 1
    /\ Len(land_geojson_features) = 1

----------------------------------------------------------------------------
(* C7: the run stops at the coverage check exactly when the status is not  *)
(* 200 or the content type names xml in any case; it then exits non-zero   *)
(* with the status and the first 500 characters of the body at most, no    *)
(* output written and no download attempted.                               *)

\* The content types of the model that name xml.
XmlTypes == {CT_xml, CT_XML_mixed, CT_ogc}

IsErrorResponse(resp) ==
    \/ resp.status_code # 200
    \/ \E k \in DOMAIN resp.headers : resp.headers[k] \in XmlTypes

\* C7 as stated: once the fetch has returned a response, the run has
\* exited with the diagnostic exactly when it is an error response, and a
\* run without a response has not exited there; an exited run has a
\* non-zero exit code, a message with the status and the first 500
\* characters of the body at most, and has written nothing, downloaded
\* nothing and read no feature.
C7_AbortOnBadCoverage ==
    /\ (pc # "fetch" /\ response # NoResponse) =>
          (IsErrorResponse(response) <=> pc = "exited")
    /\ response = NoResponse => pc \in {"fetch", "crashed"}
    /\ pc = "exited" =>
          /\ exit_code # 0
          /\ stderr.status = response.status_code
          /\ Len(stderr.excerpt) <= 500
          /\ Len(stderr.excerpt) =
                IF Len(response.body.text) < 500 THEN Len(response.body.text) ELSE 500
          /\ \A i \in 1..Len(stderr.excerpt) : stderr.excerpt[i] = response.body.text[i]
          /\ written = {} /\ downloads = {}
          /\ land_i = 0 /\ place_i = 0
          /\ land_shapes = <<>> /\ place_features = <<>>

\* The part of C7 that holds whether or not the body can be read: an error
\* response ends the run at the fetch, by sys.exit or by the exception of
\* the body read, with exit status 1 and no later stage; sys.exit is only
\* reached on an error response, with the message of the claim.
C7_BadResponseStopsRun ==
    /\ (pc # "fetch" /\ response # NoResponse /\ IsErrorResponse(response)) =>
          /\ pc \in {"exited", "crashed"}
          /\ exit_code = 1
          /\ written = {} /\ downloads = {}
          /\ land_i = 0 /\ place_i = 0
          /\ land_shapes = <<>> /\ place_features = <<>>
    /\ pc = "exited" =>
          /\ response # NoResponse
          /\ IsErrorResponse(response)
          /\ stderr = [what |-> "WCS error (HTTP ", status |-> response.status_code,
                       then |-> "):\n",
                       excerpt |-> SubSeq(response.body.text, 1,
                                          IF Len(response.body.text) < 500
                                          THEN Len(response.body.text) ELSE 500)]

\* A 200 response whose content type spells XML in capitals, with a body
\* longer than 500 characters, has stopped the run.
C7_Witness ==
    /\ pc = "exited"
    /\ response.status_code = 200
    /\ response.headers = [k \in {"Content-Type"} |-> CT_XML_mixed]
    /\ Len(response.body.text) > 500
    /\ Len(stderr.excerpt) = 500

----------------------------------------------------------------------------
(* C8: every emitted place has the property keys name, pop_max, pop_min,   *)
(* adm0_a3, featurecla and scalerank, each holding the source feature's    *)
(* NAME, POP_MAX, POP_MIN, ADM0_A3, FEATURECLA or SCALERANK, or null when  *)
(* the source feature has no such attribute.                               *)

EmittedKeys == {"name", "pop_max", "pop_min", "adm0_a3", "featurecla", "scalerank"}

SourceAttribute ==
    [name |-> "NAME", pop_max |-> "POP_MAX", pop_min |-> "POP_MIN",
     adm0_a3 |-> "ADM0_A3", featurecla |-> "FEATURECLA", scalerank |-> "SCALERANK"]

\* The features emitted so far, and written once PLACES_OUT is.
EmittedPlaces ==
    IF "PLACES_OUT" \in written THEN places_out.features ELSE place_features

\* C8 amended: every emitted place has exactly the keys name, pop_max,
\* pop_min, adm0_a3, featurecla and scalerank, each the source attribute's
\* value or null when the source has no such attribute.
C8_PlaceSchema ==
    /\ "PLACES_OUT" \in written => places_out.features = place_features
    /\ \A i \in 1..Len(EmittedPlaces) :
          LET f == EmittedPlaces[i] IN
          /\ DOMAIN f.properties = EmittedKeys
          /\ \E j \in 1..place_i :
                LET src == ne_pp_shp[j] IN
                /\ src.geometry = f.geometry
                /\ \A k \in EmittedKeys :
                      f.properties[k] =
                         IF SourceAttribute[k] \in DOMAIN src.properties
                         THEN src.properties[SourceAttribute[k]] ELSE None

\* C8 as stated: the key set of every emitted place is name, pop_max,
\* pop_min, country_code, feature_class and scale_rank.
C8_SpecSchema ==
    \A i \in 1..Len(EmittedPlaces) :
        DOMAIN EmittedPlaces[i].properties =
            {"name", "pop_max", "pop_min", "country_code", "feature_class", "scale_rank"}

\* A place whose source has no POP_MAX has been written with a null pop_max.
C8_Witness ==
    /\ "PLACES_OUT" \in written
    /\ \E i \in 1..Len(places_out.features) :
          /\ places_out.features[i].properties.name = "Corner"
          /\ places_out.features[i].properties.pop_max = None

----------------------------------------------------------------------------
(* C9: the land list and the places list are the features read so far      *)
(* that pass their filter, in source order, each geometry as read.         *)

InBoxPlace(feat) ==
    InRange(feat.geometry.coordinates[1], feat.geometry.coordinates[2],
            _bbox_tuple[1], _bbox_tuple[2], _bbox_tuple[3], _bbox_tuple[4])

OverlapsBoxFeature(feat) == OverlapsBox(feat.geometry)

\* C9: each feature list is the source sequence read so far, filtered by
\* its test, in source order, with the geometries as read.
C9_SourceOrderKept ==
    /\ land_i = 0 => land_shapes = <<>> /\ land_geojson_features = <<>>
    /\ land_i > 0 =>
          LET kept == SelectSeq(SubSeq(gshhg_shp, 1, land_i), OverlapsBoxFeature)
          IN  /\ land_shapes = Geometries(kept)
              /\ Geometries(land_geojson_features) = Geometries(kept)
    /\ "LAND_OUT" \in written =>
          Geometries(land_out.features) =
             Geometries(SelectSeq(gshhg_shp, OverlapsBoxFeature))
    /\ place_i = 0 => place_features = <<>>
    /\ place_i > 0 =>
          Geometries(place_features) =
             Geometries(SelectSeq(SubSeq(ne_pp_shp, 1, place_i), InBoxPlace))
    /\ "PLACES_OUT" \in written =>
          Geometries(places_out.features) = Geometries(SelectSeq(ne_pp_shp, InBoxPlace))

\* Both collections are written, each with two different features.
C9_Witness ==
    /\ "PLACES_OUT" \in written
    /\ Len(land_out.features) = 2
    /\ land_out.features[1] # land_out.features[2]
    /\ Len(places_out.features) = 2
    /\ places_out.features[1] # places_out.features[2]

----------------------------------------------------------------------------
(* C10: once written, TIFF_OUT never changes, the masking stage included;  *)
(* the resampling step leaves in native_arr the array read from the        *)
(* response and nothing changes it later; TIFF_OUT holds dst_arr under     *)
(* out_meta; TIFF_SEA_OUT has the masked array's shape and nodata NODATA.  *)

\* The state part of C10: the written rasters hold the arrays the stages
\* produced, and the native array is still the one read from the response.
C10_RasterFrame ==
    /\ "TIFF_OUT" \in written =>
          /\ tiff_out.data = dst_arr
          /\ tiff_out.width = out_meta.width /\ tiff_out.height = out_meta.height
          /\ tiff_out.transform = out_meta.transform
          /\ tiff_out.nodata = out_meta.nodata
          /\ DOMAIN dst_arr = (0..HEIGHT - 1) \X (0..WIDTH - 1)
          /\ native_arr = response.body.tiff[1].arr
          /\ src_meta = response.body.tiff[1].meta
    /\ "TIFF_SEA_OUT" \in written =>
          /\ DOMAIN sea_image = (0..tiff_sea_out.height - 1) \X (0..tiff_sea_out.width - 1)
          /\ tiff_sea_out.data = sea_image
          /\ tiff_sea_out.nodata = <<NODATA>>

\* C10: no step changes TIFF_OUT once it is written (masking reads it and
\* writes TIFF_SEA_OUT), no step from resampling on changes native_arr,
\* and the masked output has the masked array's shape and nodata NODATA.
C10_StagesDoNotMutate ==
    /\ [][("TIFF_OUT" \in written => tiff_out' = tiff_out)]_vars
    /\ [][(pc \notin {"fetch", "resample"} => native_arr' = native_arr)]_vars
    /\ []C10_RasterFrame

\* The masked raster is written and differs from the resampled one, which
\* still holds a depth where the masked one holds NODATA.
C10_Witness ==
    /\ "TIFF_SEA_OUT" \in written
    /\ \E rc \in DOMAIN tiff_out.data :
          tiff_out.data[rc] = Depth /\ tiff_sea_out.data[rc] = NODATA

====
